---- MODULE Spec2Model ----
(***************************************************************************)
(* Offline-first routine synchronisation of the useRoutines hook.          *)
(*                                                                         *)
(* The Local Store is the IndexedDB "routines" store (one record per       *)
(* Routine, keyed by id, Slots embedded).  The visible set is the React    *)
(* state `routines`.  The Remote Gateway is routine.service / supabase;    *)
(* each of its calls either succeeds or throws.                            *)
(***************************************************************************)
EXTENDS Integers, Sequences, FiniteSets, TLC

(* ------------------------------ bounds -------------------------------- *)
MaxServerIds == 2
MaxTempIds == 1
MaxSlotServerIds == 1
MaxTempSlotIds == 1
MaxSlots == 1
MaxName == 1
MaxSyncs == 2
MaxSteps == 4
MaxImport == 1
MaxLoads == 2
MaxAdds == 2

(* ids: a server-assigned id is a number up to TempBase, a client id       *)
(* ("temp-..." / "temp-slot-...") is a number above it                     *)
TempBase == 100

ServerIds == 1..MaxServerIds
TempIds == (TempBase + 1)..(TempBase + MaxTempIds)
RoutineIds == ServerIds \cup TempIds
SlotServerIds == 1..MaxSlotServerIds
TempSlotIds == (TempBase + 1)..(TempBase + MaxTempSlotIds)
SlotIds == SlotServerIds \cup TempSlotIds
Names == 0..MaxName

IsTemp(id) == id > TempBase

VARIABLES
  online,            \* Connectivity Monitor: ~isOffline
  db,                \* Local Store: id -> Routine record (IndexedDB STORES.ROUTINES)
  routines,          \* visible set: React state `routines`, id -> Routine record
  cacheTs,           \* localStorage[CACHE_TIMESTAMP_KEY]: "none" | "valid" | "stale"
  syncInProgress,    \* React state syncInProgress (latest value set)
  syncSeen,          \* value of syncInProgress captured by the rendered closures
  syncActive,        \* number of syncOfflineChanges invocations past the guard
  error,             \* React state `error` is set
  tempCount,         \* number of temporary routine ids generated so far
  lastOp,            \* the handler that ran in the last step ("env": none)
  gatewayLog,        \* Remote Gateway calls issued by the last step, in order
  steps,             \* number of steps taken (the exploration is cut at MaxSteps)
  mounted,           \* the component using the hook is mounted
  subscribed,        \* the 'routines' change channel is subscribed
  importResult,      \* what the last bulkImportSlots returns: success count, number of errors
  publishes,         \* the setRoutines calls of the last progressive load, in order
  inflight,          \* the overlapping loads, in the order they started
  slotCalls,         \* the offline addRoutineSlot calls in progress, in the order they started
  intent,            \* the last offline activation gesture of the previous session (op "none": there was none)
  loading            \* React state `loading`

vars == <<online, db, routines, cacheTs, syncInProgress, syncSeen, syncActive,
          error, tempCount, lastOp, gatewayLog, steps, mounted, subscribed,
          importResult, publishes, inflight, slotCalls, intent, loading>>

(* ------------------------------ records ------------------------------- *)
Slot(id, rid, off, upd, del) ==
  [id |-> id, routineId |-> rid, isOffline |-> off,
   isOfflineUpdated |-> upd, isOfflineDeleted |-> del]

Routine(id, name, act, slots, off, upd, del, na, nd) ==
  [id |-> id, name |-> name, isActive |-> act, slots |-> slots,
   isOffline |-> off, isOfflineUpdated |-> upd, isOfflineDeleted |-> del,
   needsActivationSync |-> na, needsDeactivationSync |-> nd]

\* a Remote Gateway call: the ids it carries as identifiers of existing
\* entities (0: none), for a create the local entity it is issued for, and
\* whether it returned (ok) or threw
Call4(op, id, sid, tag) == [op |-> op, id |-> id, slot |-> sid, tag |-> tag, ok |-> TRUE]
Call(op, id, sid) == Call4(op, id, sid, 0)
Failed(c) == [c EXCEPT !.ok = FALSE]

(* ------------------------- Local Store (4.2) --------------------------- *)
EmptyStore == [i \in {} |-> 0]

\* getAllFromIndexedDB: every record, in key order
getAllFromIndexedDB(store) == store

\* saveToIndexedDB(store, item): whole-item replacement keyed by id
saveToIndexedDB(store, r) ==
  [i \in DOMAIN store \cup {r.id} |-> IF i = r.id THEN r ELSE store[i]]

\* saveToIndexedDB(store, items): one put per item; other keys are untouched
saveAllToIndexedDB(store, items) ==
  [i \in DOMAIN store \cup DOMAIN items |->
     IF i \in DOMAIN items THEN items[i] ELSE store[i]]

clearIndexedDBStore(store) == EmptyStore

\* array.filter(r => r.id !== id) on a keyed collection
Without(m, id) == [i \in DOMAIN m \ {id} |-> m[i]]

\* array.map(f) on a keyed collection
MapAll(m, F(_)) == [i \in DOMAIN m |-> F(m[i])]

RECURSIVE SortedIds(_)
SortedIds(S) ==
  IF S = {} THEN <<>>
  ELSE LET lo == CHOOSE x \in S : \A y \in S : x <= y
       IN <<lo>> \o SortedIds(S \ {lo})

SeqFilter(s, P(_)) ==
  LET RECURSIVE F(_)
      F(t) == IF t = <<>> THEN <<>>
              ELSE IF P(Head(t)) THEN <<Head(t)>> \o F(Tail(t)) ELSE F(Tail(t))
  IN F(s)

SeqMap(s, G(_)) == [k \in 1..Len(s) |-> G(s[k])]

SlotIdsOf(r) == {r.slots[k].id : k \in 1..Len(r.slots)}

AllSlotIds(m) == UNION {SlotIdsOf(m[i]) : i \in DOMAIN m}

(* ------------------------------- Init --------------------------------- *)
\* a record as the services return it: server id, no markers
CleanSlots(rid) ==
  {<<>>} \cup {<<Slot(sid, rid, FALSE, FALSE, FALSE)>> : sid \in SlotServerIds}

CleanRoutines(rid) ==
  {Routine(rid, 0, act, sl, FALSE, FALSE, FALSE, FALSE, FALSE) :
     act \in BOOLEAN, sl \in CleanSlots(rid)}

\* the stores a previous session can have left behind: fetched or created
\* online, nothing pending, slot ids unique
CleanStores ==
  {m \in UNION {[D -> UNION {CleanRoutines(i) : i \in D}] : D \in SUBSET ServerIds} :
     /\ \A i \in DOMAIN m : m[i].id = i
     /\ \A i, j \in DOMAIN m : i # j => SlotIdsOf(m[i]) \cap SlotIdsOf(m[j]) = {}}

Init ==
  /\ online \in BOOLEAN
  /\ db \in CleanStores
  /\ routines = EmptyStore
  /\ cacheTs = "none"
  /\ syncInProgress = FALSE
  /\ syncSeen = FALSE
  /\ syncActive = 0
  /\ error = FALSE
  /\ tempCount = 0
  /\ lastOp = "init"
  /\ gatewayLog = <<>>
  /\ steps = 0
  /\ mounted = TRUE
  /\ subscribed = online
  /\ importResult = [success |-> 0, errors |-> 0]
  /\ publishes = <<>>
  /\ inflight = <<>>
  /\ slotCalls = <<>>
  /\ intent = [id |-> 0, op |-> "none"]
  /\ loading = TRUE

\* the handlers after which a load is over (`finally { setLoading(false); }`)
LoadEnds == {"loadOffline", "loadCached", "loadFetched", "loadEmpty", "loadFallback"}

Finish(op, log) ==
  /\ steps < MaxSteps
  /\ steps' = steps + 1
  /\ lastOp' = op
  /\ gatewayLog' = log
  /\ loading' = IF op \in LoadEnds THEN FALSE
                ELSE IF op = "loadStart" THEN TRUE ELSE loading

\* a handler's step: the subscription effect does not run
Done(op, log) ==
  /\ Finish(op, log)
  /\ UNCHANGED <<mounted, subscribed, importResult, publishes, inflight, slotCalls, intent>>

subscribe_always(isMounted, isOnline) == isMounted

\* the subscription effect: its cleanup unsubscribes, and its body
\* subscribes `if (!isOffline)`, while the component is mounted
subscribe(isMounted, isOnline) == isMounted /\ isOnline

\* the ids the user can name: those of the records the client holds
KnownIds == DOMAIN db \cup DOMAIN routines

KnownSlotIds(rid) ==
  (IF rid \in DOMAIN db THEN SlotIdsOf(db[rid]) ELSE {})
    \cup (IF rid \in DOMAIN routines THEN SlotIdsOf(routines[rid]) ELSE {})

(* ------------------------- environment steps --------------------------- *)
\* useOfflineStatus: the browser goes offline / online; isOffline is a
\* dependency of the subscription effect, which is cleaned up and run again
GoOffline ==
  /\ online
  /\ online' = FALSE
  /\ Finish("env", <<>>)
  /\ UNCHANGED <<mounted, importResult, publishes, inflight, slotCalls, intent>>
  /\ subscribed' = subscribe(mounted, FALSE)
  /\ UNCHANGED <<db, routines, cacheTs, syncInProgress, syncSeen, syncActive,
                 error, tempCount>>

GoOnline ==
  /\ ~online
  /\ online' = TRUE
  /\ Finish("env", <<>>)
  /\ UNCHANGED <<mounted, importResult, publishes, inflight, slotCalls, intent>>
  /\ subscribed' = subscribe(mounted, TRUE)
  /\ UNCHANGED <<db, routines, cacheTs, syncInProgress, syncSeen, syncActive,
                 error, tempCount>>

(* ----------------------------- createRoutine --------------------------- *)
createRoutine(name, act) ==
  IF ~online
  THEN \* temporary id, marked _isOffline
    /\ tempCount < MaxTempIds
    /\ LET tempId == TempBase + tempCount + 1
           offlineRoutine == Routine(tempId, name, act, <<>>, TRUE, FALSE, FALSE, FALSE, FALSE)
       IN /\ db' = saveToIndexedDB(db, offlineRoutine)
          /\ routines' = saveToIndexedDB(routines, offlineRoutine)
          /\ tempCount' = tempCount + 1
          /\ error' = FALSE
          /\ Done("createRoutine", <<>>)
    /\ UNCHANGED <<online, cacheTs, syncInProgress, syncSeen, syncActive>>
  ELSE
    \/ \* createRoutineService succeeds with a server-assigned id
       \E newId \in ServerIds \ (DOMAIN db \cup DOMAIN routines) :
         LET newRoutine == Routine(newId, name, act, <<>>, FALSE, FALSE, FALSE, FALSE, FALSE)
         IN /\ routines' = saveToIndexedDB(routines, newRoutine)
            /\ db' = saveToIndexedDB(db, newRoutine)
            /\ error' = FALSE
            /\ Done("createRoutine", <<Call("createRoutine", 0, 0)>>)
            /\ UNCHANGED <<online, cacheTs, syncInProgress, syncSeen, syncActive, tempCount>>
    \/ \* createRoutineService throws
       /\ error' = TRUE
       /\ Done("createRoutine", <<Failed(Call("createRoutine", 0, 0))>>)
       /\ UNCHANGED <<online, db, routines, cacheTs, syncInProgress, syncSeen,
                      syncActive, tempCount>>

\* a new routine carries the form's name (0); edits change it later
CreateRoutine == \E act \in BOOLEAN : createRoutine(0, act)

(* ----------------------------- updateRoutine --------------------------- *)
updateRoutine(id, name) ==
  IF ~online
  THEN
    /\ db' = IF id \in DOMAIN getAllFromIndexedDB(db)
             THEN saveToIndexedDB(db, [db[id] EXCEPT !.name = name, !.isOfflineUpdated = TRUE])
             ELSE db
    /\ routines' = IF id \in DOMAIN db
                   THEN MapAll(routines, LAMBDA r : IF r.id = id THEN [r EXCEPT !.name = name] ELSE r)
                   ELSE routines
    /\ error' = FALSE
    /\ Done("updateRoutine", <<>>)
    /\ UNCHANGED <<online, cacheTs, syncInProgress, syncSeen, syncActive, tempCount>>
  ELSE
    \/ \* updateRoutineService succeeds
       /\ routines' = MapAll(routines, LAMBDA r : IF r.id = id THEN [r EXCEPT !.name = name] ELSE r)
       /\ db' = IF id \in DOMAIN db
                THEN saveToIndexedDB(db, [db[id] EXCEPT !.name = name])
                ELSE db
       /\ error' = FALSE
       /\ Done("updateRoutine", <<Call("updateRoutine", id, 0)>>)
       /\ UNCHANGED <<online, cacheTs, syncInProgress, syncSeen, syncActive, tempCount>>
    \/ \* updateRoutineService throws
       /\ error' = TRUE
       /\ Done("updateRoutine", <<Failed(Call("updateRoutine", id, 0))>>)
       /\ UNCHANGED <<online, db, routines, cacheTs, syncInProgress, syncSeen,
                      syncActive, tempCount>>

UpdateRoutine == \E id \in KnownIds, name \in Names : updateRoutine(id, name)

(* ----------------------------- deleteRoutine --------------------------- *)
markedRoutine_unmarked(r) == r

\* offline branch: the record is flagged _isOfflineDeleted, whatever its other flags
markedRoutine(r) == [r EXCEPT !.isOfflineDeleted = TRUE]

deleteRoutine_optimistic(id) ==
  IF ~online
  THEN
    /\ db' = IF id \in DOMAIN getAllFromIndexedDB(db)
             THEN saveToIndexedDB(db, markedRoutine(db[id]))
             ELSE db
    /\ routines' = Without(routines, id)
    /\ error' = FALSE
    /\ Done("deleteRoutine", <<>>)
    /\ UNCHANGED <<online, cacheTs, syncInProgress, syncSeen, syncActive, tempCount>>
  ELSE
    \/ /\ routines' = Without(routines, id)
       /\ db' = saveAllToIndexedDB(clearIndexedDBStore(db), Without(getAllFromIndexedDB(db), id))
       /\ cacheTs' = "valid"
       /\ error' = FALSE
       /\ Done("deleteRoutine", <<Call("deleteRoutine", id, 0)>>)
       /\ UNCHANGED <<online, syncInProgress, syncSeen, syncActive, tempCount>>
    \/ /\ routines' = Without(routines, id)
       /\ db' = saveAllToIndexedDB(clearIndexedDBStore(db), Without(getAllFromIndexedDB(db), id))
       /\ cacheTs' = "valid"
       /\ error' = TRUE
       /\ Done("deleteRoutine", <<Failed(Call("deleteRoutine", id, 0))>>)
       /\ UNCHANGED <<online, syncInProgress, syncSeen, syncActive, tempCount>>

deleteRoutine(id) ==
  IF ~online
  THEN
    /\ db' = IF id \in DOMAIN getAllFromIndexedDB(db)
             THEN saveToIndexedDB(db, markedRoutine(db[id]))
             ELSE db
    /\ routines' = Without(routines, id)
    /\ error' = FALSE
    /\ Done("deleteRoutine", <<>>)
    /\ UNCHANGED <<online, cacheTs, syncInProgress, syncSeen, syncActive, tempCount>>
  ELSE
    \/ \* deleteRoutineService succeeds: clear the store, save the others back
       /\ routines' = Without(routines, id)
       /\ db' = saveAllToIndexedDB(clearIndexedDBStore(db), Without(getAllFromIndexedDB(db), id))
       /\ cacheTs' = "valid"
       /\ error' = FALSE
       /\ Done("deleteRoutine", <<Call("deleteRoutine", id, 0)>>)
       /\ UNCHANGED <<online, syncInProgress, syncSeen, syncActive, tempCount>>
    \/ \* deleteRoutineService throws
       /\ error' = TRUE
       /\ Done("deleteRoutine", <<Failed(Call("deleteRoutine", id, 0))>>)
       /\ UNCHANGED <<online, db, routines, cacheTs, syncInProgress, syncSeen,
                      syncActive, tempCount>>

DeleteRoutine == \E id \in KnownIds : deleteRoutine(id)

(* ------------------------ activate / deactivate ------------------------ *)
\* offline: every record is rewritten; the flag is true on the target and
\* undefined on every other record
activateOffline_keepsOthers(r, routineId) ==
  [r EXCEPT !.isActive = (r.id = routineId) \/ r.isActive,
            !.needsActivationSync = (r.id = routineId)]

activateOffline(r, routineId) ==
  [r EXCEPT !.isActive = (r.id = routineId),
            !.needsActivationSync = (r.id = routineId)]

activateOnline(r, routineId) == [r EXCEPT !.isActive = (r.id = routineId)]

activateRoutine(routineId) ==
  IF ~online
  THEN
    /\ routines' = MapAll(routines, LAMBDA r : activateOffline(r, routineId))
    /\ db' = saveAllToIndexedDB(db, MapAll(getAllFromIndexedDB(db),
                                          LAMBDA r : activateOffline(r, routineId)))
    /\ error' = FALSE
    /\ Done("activateRoutine", <<>>)
    /\ UNCHANGED <<online, cacheTs, syncInProgress, syncSeen, syncActive, tempCount>>
  ELSE
    \/ \* activateRoutineService succeeds
       /\ routines' = MapAll(routines, LAMBDA r : activateOnline(r, routineId))
       /\ db' = saveAllToIndexedDB(db, MapAll(getAllFromIndexedDB(db),
                                             LAMBDA r : activateOnline(r, routineId)))
       /\ error' = FALSE
       /\ Done("activateRoutine", <<Call("activateRoutine", routineId, 0)>>)
       /\ UNCHANGED <<online, cacheTs, syncInProgress, syncSeen, syncActive, tempCount>>
    \/ \* activateRoutineService throws
       /\ error' = TRUE
       /\ Done("activateRoutine", <<Failed(Call("activateRoutine", routineId, 0))>>)
       /\ UNCHANGED <<online, db, routines, cacheTs, syncInProgress, syncSeen,
                      syncActive, tempCount>>

ActivateRoutine == \E id \in RoutineIds : activateRoutine(id)

deactivateOffline(r, routineId) ==
  [r EXCEPT !.isActive = IF r.id = routineId THEN FALSE ELSE r.isActive,
            !.needsDeactivationSync = (r.id = routineId)]

deactivateOnline(r, routineId) ==
  [r EXCEPT !.isActive = IF r.id = routineId THEN FALSE ELSE r.isActive]

deactivateRoutine(routineId) ==
  IF ~online
  THEN
    /\ routines' = MapAll(routines, LAMBDA r : deactivateOffline(r, routineId))
    /\ db' = saveAllToIndexedDB(db, MapAll(getAllFromIndexedDB(db),
                                          LAMBDA r : deactivateOffline(r, routineId)))
    /\ error' = FALSE
    /\ Done("deactivateRoutine", <<>>)
    /\ UNCHANGED <<online, cacheTs, syncInProgress, syncSeen, syncActive, tempCount>>
  ELSE
    \/ \* deactivateRoutineService succeeds
       /\ routines' = MapAll(routines, LAMBDA r : deactivateOnline(r, routineId))
       /\ db' = saveAllToIndexedDB(db, MapAll(getAllFromIndexedDB(db),
                                             LAMBDA r : deactivateOnline(r, routineId)))
       /\ error' = FALSE
       /\ Done("deactivateRoutine", <<Call("deactivateRoutine", routineId, 0)>>)
       /\ UNCHANGED <<online, cacheTs, syncInProgress, syncSeen, syncActive, tempCount>>
    \/ \* deactivateRoutineService throws
       /\ error' = TRUE
       /\ Done("deactivateRoutine", <<Failed(Call("deactivateRoutine", routineId, 0))>>)
       /\ UNCHANGED <<online, db, routines, cacheTs, syncInProgress, syncSeen,
                      syncActive, tempCount>>

DeactivateRoutine == \E id \in KnownIds : deactivateRoutine(id)

(* --------------------------- slot operations --------------------------- *)
HasRoom(m, routineId) ==
  routineId \in DOMAIN m => Len(m[routineId].slots) < MaxSlots

FreeSlotIds(pool) == pool \ (AllSlotIds(db) \cup AllSlotIds(routines))

appendSlot(m, routineId, newSlot) ==
  MapAll(m, LAMBDA r : IF r.id = routineId
                       THEN [r EXCEPT !.slots = Append(r.slots, newSlot)] ELSE r)

addRoutineSlot(routineId) ==
  /\ HasRoom(db, routineId) /\ HasRoom(routines, routineId)
  /\ IF ~online
     THEN
       IF routineId \in DOMAIN getAllFromIndexedDB(db)
       THEN \E tempId \in FreeSlotIds(TempSlotIds) :
              LET newSlot == Slot(tempId, routineId, TRUE, FALSE, FALSE)
              IN /\ db' = saveAllToIndexedDB(db, appendSlot(db, routineId, newSlot))
                 /\ routines' = appendSlot(routines, routineId, newSlot)
                 /\ error' = FALSE
                 /\ Done("addRoutineSlot", <<>>)
                 /\ UNCHANGED <<online, cacheTs, syncInProgress, syncSeen, syncActive, tempCount>>
       ELSE \* throw new Error('Routine not found')
            /\ error' = TRUE
            /\ Done("addRoutineSlot", <<>>)
            /\ UNCHANGED <<online, db, routines, cacheTs, syncInProgress, syncSeen,
                           syncActive, tempCount>>
     ELSE
       \/ \* addRoutineSlotService succeeds
          \E newId \in FreeSlotIds(SlotServerIds) :
            LET newSlot == Slot(newId, routineId, FALSE, FALSE, FALSE)
            IN /\ routines' = appendSlot(routines, routineId, newSlot)
               /\ db' = IF routineId \in DOMAIN db
                        THEN saveToIndexedDB(db, [db[routineId] EXCEPT
                                                    !.slots = Append(@, newSlot)])
                        ELSE db
               /\ error' = FALSE
               /\ Done("addRoutineSlot", <<Call("addRoutineSlot", routineId, 0)>>)
               /\ UNCHANGED <<online, cacheTs, syncInProgress, syncSeen, syncActive, tempCount>>
       \/ \* addRoutineSlotService throws
          /\ error' = TRUE
          /\ Done("addRoutineSlot", <<Failed(Call("addRoutineSlot", routineId, 0))>>)
          /\ UNCHANGED <<online, db, routines, cacheTs, syncInProgress, syncSeen,
                         syncActive, tempCount>>

AddRoutineSlot == \E rid \in KnownIds : addRoutineSlot(rid)

\* the slot's fields other than its markers are not modelled: an update
\* leaves the record as it is, apart from the marker set offline
updateRoutineSlot(routineId, slotId) ==
  IF ~online
  THEN
    /\ db' = IF routineId \in DOMAIN getAllFromIndexedDB(db)
             THEN saveAllToIndexedDB(db,
                    [db EXCEPT ![routineId].slots =
                       SeqMap(@, LAMBDA sl : IF sl.id = slotId
                                             THEN [sl EXCEPT !.isOfflineUpdated = TRUE]
                                             ELSE sl)])
             ELSE db
    /\ UNCHANGED routines
    /\ error' = FALSE
    /\ Done("updateRoutineSlot", <<>>)
    /\ UNCHANGED <<online, cacheTs, syncInProgress, syncSeen, syncActive, tempCount>>
  ELSE
    \/ \* updateRoutineSlotService succeeds
       /\ UNCHANGED <<db, routines>>
       /\ error' = FALSE
       /\ Done("updateRoutineSlot", <<Call("updateRoutineSlot", routineId, slotId)>>)
       /\ UNCHANGED <<online, cacheTs, syncInProgress, syncSeen, syncActive, tempCount>>
    \/ \* updateRoutineSlotService throws
       /\ error' = TRUE
       /\ Done("updateRoutineSlot", <<Failed(Call("updateRoutineSlot", routineId, slotId))>>)
       /\ UNCHANGED <<online, db, routines, cacheTs, syncInProgress, syncSeen,
                      syncActive, tempCount>>

UpdateRoutineSlot == \E rid \in KnownIds : \E sid \in KnownSlotIds(rid) : updateRoutineSlot(rid, sid)

\* offline: mark the slot, then drop it if it is a temporary (_isOffline) one
updatedSlots(slots, slotId) ==
  SeqFilter(SeqMap(slots, LAMBDA sl : IF sl.id = slotId
                                      THEN [sl EXCEPT !.isOfflineDeleted = TRUE] ELSE sl),
            LAMBDA sl : ~(sl.id = slotId /\ sl.isOffline))

filterSlot(m, routineId, slotId) ==
  MapAll(m, LAMBDA r : IF r.id = routineId
                       THEN [r EXCEPT !.slots = SeqFilter(@, LAMBDA sl : sl.id # slotId)]
                       ELSE r)

deleteRoutineSlot(routineId, slotId) ==
  IF ~online
  THEN
    /\ db' = IF routineId \in DOMAIN getAllFromIndexedDB(db)
             THEN saveAllToIndexedDB(db,
                    [db EXCEPT ![routineId].slots = updatedSlots(@, slotId)])
             ELSE db
    /\ routines' = filterSlot(routines, routineId, slotId)
    /\ error' = FALSE
    /\ Done("deleteRoutineSlot", <<>>)
    /\ UNCHANGED <<online, cacheTs, syncInProgress, syncSeen, syncActive, tempCount>>
  ELSE
    \/ \* deleteRoutineSlotService succeeds
       /\ routines' = filterSlot(routines, routineId, slotId)
       /\ db' = saveAllToIndexedDB(db, filterSlot(getAllFromIndexedDB(db), routineId, slotId))
       /\ error' = FALSE
       /\ Done("deleteRoutineSlot", <<Call("deleteRoutineSlot", routineId, slotId)>>)
       /\ UNCHANGED <<online, cacheTs, syncInProgress, syncSeen, syncActive, tempCount>>
    \/ \* deleteRoutineSlotService throws
       /\ error' = TRUE
       /\ Done("deleteRoutineSlot", <<Failed(Call("deleteRoutineSlot", routineId, slotId))>>)
       /\ UNCHANGED <<online, db, routines, cacheTs, syncInProgress, syncSeen,
                      syncActive, tempCount>>

DeleteRoutineSlot == \E rid \in KnownIds : \E sid \in KnownSlotIds(rid) : deleteRoutineSlot(rid, sid)

(* ------------------- addRoutineSlot calls that interleave -------------- *)
\* the temporary id of the k-th call: Date.now() and a random suffix, never
\* an id handed out before
callSlotId(k) == TempBase + MaxTempSlotIds + k

\* offline addRoutineSlot up to the answer of getAllFromIndexedDB: the call
\* holds its own copy of the store's routines
addSlotRead(routineId) ==
  /\ ~online
  /\ Len(slotCalls) < MaxAdds
  /\ slotCalls' = Append(slotCalls,
        [routineId |-> routineId,
         newSlot |-> Slot(callSlotId(Len(slotCalls) + 1), routineId, TRUE, FALSE, FALSE),
         updatedRoutines |-> getAllFromIndexedDB(db),
         done |-> FALSE])
  /\ error' = FALSE
  /\ Finish("addSlotRead", <<>>)
  /\ UNCHANGED <<online, db, routines, cacheTs, syncInProgress, syncSeen, syncActive,
                 tempCount, mounted, subscribed, importResult, publishes, inflight, intent>>

AddSlotRead == \E rid \in ServerIds : addSlotRead(rid)

\* the rest of call k: it appends its slot to the routine of its copy, saves
\* every routine of the copy and updates the visible set
addSlotWrite(k) ==
  /\ k \in 1..Len(slotCalls)
  /\ ~slotCalls[k].done
  /\ LET c == slotCalls[k]
     IN IF c.routineId \in DOMAIN c.updatedRoutines
        THEN /\ db' = saveAllToIndexedDB(db, appendSlot(c.updatedRoutines, c.routineId, c.newSlot))
             /\ routines' = appendSlot(routines, c.routineId, c.newSlot)
             /\ UNCHANGED error
        ELSE \* throw new Error('Routine not found')
             /\ error' = TRUE
             /\ UNCHANGED <<db, routines>>
  /\ slotCalls' = [slotCalls EXCEPT ![k].done = TRUE]
  /\ Finish("addRoutineSlot", <<>>)
  /\ UNCHANGED <<online, cacheTs, syncInProgress, syncSeen, syncActive,
                 tempCount, mounted, subscribed, importResult, publishes, inflight, intent>>

AddSlotWrite == \E k \in 1..MaxAdds : addSlotWrite(k)

(* -------------------------- syncOfflineChanges ------------------------- *)
slotPending(sl) == sl.isOffline \/ sl.isOfflineUpdated \/ sl.isOfflineDeleted

routinePending(r) ==
  \/ r.isOffline \/ r.isOfflineUpdated \/ r.isOfflineDeleted
  \/ r.needsActivationSync \/ r.needsDeactivationSync
  \/ \E k \in 1..Len(r.slots) : slotPending(r.slots[k])

\* one slot of the loop over routine.slots; acc.syncedSlots is the working copy
syncSlot(acc, routine, slot, fails, newSlotId) ==
  IF ~slotPending(slot) THEN acc
  ELSE IF slot.isOfflineDeleted THEN
    LET c == Call("deleteRoutineSlot", routine.id, slot.id)
    IN IF c \in fails
       THEN [acc EXCEPT !.calls = Append(@, Failed(c)), !.syncErrors = @ + 1]
       ELSE [acc EXCEPT !.calls = Append(@, c),
                        !.syncedSlots = SeqFilter(@, LAMBDA x : x.id # slot.id),
                        !.slotsChanged = TRUE]
  ELSE IF slot.isOffline THEN
    LET c == Call4("addRoutineSlot", routine.id, 0, slot.id)
        newSlot == Slot(newSlotId[slot.id], routine.id, FALSE, FALSE, FALSE)
    IN IF c \in fails
       THEN [acc EXCEPT !.calls = Append(@, Failed(c)), !.syncErrors = @ + 1]
       ELSE [acc EXCEPT !.calls = Append(@, c),
                        !.syncedSlots = SeqMap(@, LAMBDA x : IF x.id = slot.id
                                                             THEN newSlot ELSE x),
                        !.slotsChanged = TRUE]
  ELSE \* slot._isOfflineUpdated
    LET c == Call("updateRoutineSlot", routine.id, slot.id)
    IN IF c \in fails
       THEN [acc EXCEPT !.calls = Append(@, Failed(c)), !.syncErrors = @ + 1]
       ELSE [acc EXCEPT !.calls = Append(@, c),
                        !.syncedSlots = SeqMap(@, LAMBDA x :
                           IF x.id = slot.id
                           THEN [slot EXCEPT !.routineId = routine.id,
                                             !.isOffline = FALSE,
                                             !.isOfflineUpdated = FALSE]
                           ELSE x),
                        !.slotsChanged = TRUE]

RECURSIVE syncSlots(_, _, _, _, _)
syncSlots(acc, routine, k, fails, newSlotId) ==
  IF k > Len(routine.slots) THEN acc
  ELSE syncSlots(syncSlot(acc, routine, routine.slots[k], fails, newSlotId),
                 routine, k + 1, fails, newSlotId)

\* "Handle activation/deactivation"
syncActivation(acc, routine, fails) ==
  IF routine.needsActivationSync THEN
    LET c == Call("activateRoutine", routine.id, 0)
    IN IF c \in fails
       THEN [acc EXCEPT !.calls = Append(@, Failed(c)), !.syncErrors = @ + 1]
       ELSE [acc EXCEPT !.calls = Append(@, c),
                        !.synced[routine.id].isActive = TRUE,
                        !.synced[routine.id].needsActivationSync = FALSE,
                        !.hasChanges = TRUE]
  ELSE IF routine.needsDeactivationSync THEN
    LET c == Call("deactivateRoutine", routine.id, 0)
    IN IF c \in fails
       THEN [acc EXCEPT !.calls = Append(@, Failed(c)), !.syncErrors = @ + 1]
       ELSE [acc EXCEPT !.calls = Append(@, c),
                        !.synced[routine.id].isActive = FALSE,
                        !.synced[routine.id].needsDeactivationSync = FALSE,
                        !.hasChanges = TRUE]
  ELSE acc

\* "Handle new routines created offline": the temp record is dropped from
\* syncedRoutines and the service's record (no slots, no flags) is pushed
syncCreate(acc, routine, fails, newId) ==
  LET c == Call4("createRoutine", 0, 0, routine.id)
      newRoutine == Routine(newId[routine.id], routine.name, routine.isActive, <<>>,
                            FALSE, FALSE, FALSE, FALSE, FALSE)
  IN IF c \in fails
     THEN [acc EXCEPT !.calls = Append(@, Failed(c)), !.syncErrors = @ + 1]
     ELSE [acc EXCEPT !.calls = Append(@, c),
                      !.synced = saveToIndexedDB(Without(@, routine.id), newRoutine),
                      !.hasChanges = TRUE]

syncUpdate_dropsMarkerOnFailure(acc, routine, fails) ==
  IF ~routine.isOfflineUpdated THEN acc
  ELSE
    LET c == Call("updateRoutine", routine.id, 0)
    IN IF c \in fails
       THEN [acc EXCEPT !.calls = Append(@, Failed(c)), !.syncErrors = @ + 1,
                        !.synced[routine.id].isOfflineUpdated = FALSE,
                        !.hasChanges = TRUE]
       ELSE [acc EXCEPT !.calls = Append(@, c),
                        !.synced[routine.id].name = routine.name,
                        !.synced[routine.id].isActive = routine.isActive,
                        !.synced[routine.id].isOfflineDeleted = routine.isOfflineDeleted,
                        !.synced[routine.id].isOfflineUpdated = FALSE,
                        !.hasChanges = TRUE]

\* "Handle routine updates": routineData is the snapshot record without its
\* _isOfflineUpdated, _isOffline, activation flags and slots
syncUpdate(acc, routine, fails) ==
  IF ~routine.isOfflineUpdated THEN acc
  ELSE
    LET c == Call("updateRoutine", routine.id, 0)
    IN IF c \in fails
       THEN [acc EXCEPT !.calls = Append(@, Failed(c)), !.syncErrors = @ + 1]
       ELSE [acc EXCEPT !.calls = Append(@, c),
                        !.synced[routine.id].name = routine.name,
                        !.synced[routine.id].isActive = routine.isActive,
                        !.synced[routine.id].isOfflineDeleted = routine.isOfflineDeleted,
                        !.synced[routine.id].isOfflineUpdated = FALSE,
                        !.hasChanges = TRUE]

\* "Handle slot changes"
syncRoutineSlots(acc, routine, fails, newSlotId) ==
  IF Len(routine.slots) = 0 THEN acc
  ELSE
    LET a0 == [acc EXCEPT !.syncedSlots = routine.slots, !.slotsChanged = FALSE]
        a1 == syncSlots(a0, routine, 1, fails, newSlotId)
    IN IF a1.slotsChanged
       THEN [a1 EXCEPT !.synced[routine.id].slots = a1.syncedSlots, !.hasChanges = TRUE]
       ELSE a1

\* one iteration of `for (const routine of offlineRoutines)`
syncRoutine(acc, routine, fails, newId, newSlotId) ==
  IF ~routinePending(routine) THEN acc
  ELSE IF routine.isOfflineDeleted THEN
    LET c == Call("deleteRoutine", routine.id, 0)
    IN IF c \in fails
       THEN [acc EXCEPT !.calls = Append(@, Failed(c)), !.syncErrors = @ + 1]
       ELSE [acc EXCEPT !.calls = Append(@, c),
                        !.synced = Without(@, routine.id),
                        !.hasChanges = TRUE]
  ELSE
    LET a1 == syncActivation(acc, routine, fails)
    IN IF routine.isOffline
       THEN syncCreate(a1, routine, fails, newId)
       ELSE syncRoutineSlots(syncUpdate(a1, routine, fails), routine, fails, newSlotId)

RECURSIVE syncLoop(_, _, _, _, _, _)
syncLoop(acc, offlineRoutines, order, fails, newId, newSlotId) ==
  IF order = <<>> THEN acc
  ELSE syncLoop(syncRoutine(acc, offlineRoutines[Head(order)], fails, newId, newSlotId),
                offlineRoutines, Tail(order), fails, newId, newSlotId)

syncResult(offlineRoutines, fails, newId, newSlotId) ==
  syncLoop([synced |-> offlineRoutines, hasChanges |-> FALSE, syncErrors |-> 0,
            calls |-> <<>>, syncedSlots |-> <<>>, slotsChanged |-> FALSE],
           offlineRoutines, SortedIds(DOMAIN offlineRoutines), fails, newId, newSlotId)

CallsOf(log) == {log[k] : k \in 1..Len(log)}

\* the calls a pass over this store attempts (they do not depend on which fail)
Attempted(store) ==
  CallsOf(syncResult(store, {}, [t \in TempIds |-> 1], [t \in TempSlotIds |-> 1]).calls)

\* server-assigned ids are fresh and distinct; ids of creates that are not
\* issued or fail are pinned to 1
FreshAssignment(f, created, free) ==
  /\ \A t \in DOMAIN f : IF t \in created THEN f[t] \in free ELSE f[t] = 1
  /\ \A t, u \in created : t # u => f[t] # f[u]


syncBody_alwaysWrites(fails, newId, newSlotId) ==
  LET offlineRoutines == getAllFromIndexedDB(db)
      ok == Attempted(offlineRoutines) \ fails
      res == syncResult(offlineRoutines, fails, newId, newSlotId)
  IN /\ fails \subseteq Attempted(offlineRoutines)
     /\ FreshAssignment(newId, {c.tag : c \in {x \in ok : x.op = "createRoutine"}},
                        ServerIds \ (DOMAIN db \cup DOMAIN routines))
     /\ FreshAssignment(newSlotId, {c.tag : c \in {x \in ok : x.op = "addRoutineSlot"}},
                        FreeSlotIds(SlotServerIds))
     /\ IF TRUE
        THEN /\ db' = saveAllToIndexedDB(db, res.synced)
             /\ routines' = res.synced
             /\ cacheTs' = "valid"
        ELSE UNCHANGED <<db, routines, cacheTs>>
     /\ Done("syncOfflineChanges", res.calls)

\* the store and state after the loop: written back only if hasChanges
syncBody(fails, newId, newSlotId) ==
  LET offlineRoutines == getAllFromIndexedDB(db)
      ok == Attempted(offlineRoutines) \ fails
      res == syncResult(offlineRoutines, fails, newId, newSlotId)
  IN /\ fails \subseteq Attempted(offlineRoutines)
     /\ FreshAssignment(newId, {c.tag : c \in {x \in ok : x.op = "createRoutine"}},
                        ServerIds \ (DOMAIN db \cup DOMAIN routines))
     /\ FreshAssignment(newSlotId, {c.tag : c \in {x \in ok : x.op = "addRoutineSlot"}},
                        FreeSlotIds(SlotServerIds))
     /\ IF res.hasChanges
        THEN /\ db' = saveAllToIndexedDB(db, res.synced)
             /\ routines' = res.synced
             /\ cacheTs' = "valid"
        ELSE UNCHANGED <<db, routines, cacheTs>>
     /\ Done("syncOfflineChanges", res.calls)

\* one whole invocation: guard `if (isOffline || syncInProgress) return;`,
\* the try block, and the finally that resets the flag
syncOfflineChanges ==
  /\ syncActive = 0
  /\ IF ~online \/ syncSeen
     THEN /\ Done("syncSkip", <<>>)
          /\ UNCHANGED <<db, routines, cacheTs>>
     ELSE \E fails \in SUBSET Attempted(getAllFromIndexedDB(db)),
             newId \in [TempIds -> ServerIds],
             newSlotId \in [TempSlotIds -> SlotServerIds] :
            syncBody(fails, newId, newSlotId)
  /\ UNCHANGED <<online, syncInProgress, syncSeen, syncActive, error, tempCount>>

\* the same invocation in two steps, so that invocations can overlap:
\* the guard and setSyncInProgress(true) ...
SyncStart ==
  /\ syncActive < MaxSyncs
  /\ IF online /\ ~syncSeen
     THEN /\ syncInProgress' = TRUE
          /\ syncActive' = syncActive + 1
          /\ Done("syncStart", <<>>)
     ELSE /\ UNCHANGED <<syncInProgress, syncActive>>
          /\ Done("syncSkip", <<>>)
  /\ UNCHANGED <<online, db, routines, cacheTs, syncSeen, error, tempCount>>

\* ... and the rest of the try block with the finally
SyncPass ==
  /\ syncActive > 0
  /\ \E fails \in SUBSET Attempted(getAllFromIndexedDB(db)),
        newId \in [TempIds -> ServerIds],
        newSlotId \in [TempSlotIds -> SlotServerIds] :
       syncBody(fails, newId, newSlotId)
  /\ syncInProgress' = FALSE
  /\ syncActive' = syncActive - 1
  /\ UNCHANGED <<online, syncSeen, error, tempCount>>

SyncRaise_noFinally ==
  /\ syncActive > 0
  /\ \E fails \in SUBSET Attempted(getAllFromIndexedDB(db)) :
       \E log \in {<<>>, syncResult(getAllFromIndexedDB(db), fails,
                                    [t \in TempIds |-> 1], [t \in TempSlotIds |-> 1]).calls} :
         Done("syncRaise", log)
  /\ error' = TRUE
  /\ UNCHANGED syncInProgress
  /\ syncActive' = syncActive - 1
  /\ UNCHANGED <<online, db, routines, cacheTs, syncSeen, tempCount>>

\* the rest of an invocation in which getAllFromIndexedDB raises (no call has
\* been issued) or saveToIndexedDB raises (the calls have been): the catch
\* sets the error, the finally resets the flag; nothing is written
SyncRaise ==
  /\ syncActive > 0
  /\ \E fails \in SUBSET Attempted(getAllFromIndexedDB(db)) :
       \E log \in {<<>>, syncResult(getAllFromIndexedDB(db), fails,
                                    [t \in TempIds |-> 1], [t \in TempSlotIds |-> 1]).calls} :
         Done("syncRaise", log)
  /\ error' = TRUE
  /\ syncInProgress' = FALSE
  /\ syncActive' = syncActive - 1
  /\ UNCHANGED <<online, db, routines, cacheTs, syncSeen, tempCount>>

\* React re-renders: the handlers close over the current syncInProgress
Render ==
  /\ syncSeen # syncInProgress
  /\ syncSeen' = syncInProgress
  /\ Done("env", <<>>)
  /\ UNCHANGED <<online, db, routines, cacheTs, syncInProgress, syncActive, error, tempCount>>

(* ------------------------------ loadRoutines --------------------------- *)
\* what the backend holds when it is read: server ids, no markers
RemoteSnapshots == CleanStores

cacheHasSlots_nonEmpty(cached) == DOMAIN cached # {}

\* `cachedRoutines.some(r => r.slots && r.slots.length > 0)`
cacheHasSlots(cached) == \E i \in DOMAIN cached : Len(cached[i].slots) > 0

\* `isCacheValid`: a timestamp inside the validity window, no force, no admin
isCacheValid(forceRefresh, isAdminView) ==
  ~isAdminView /\ ~forceRefresh /\ cacheTs = "valid"

\* the timestamp after `if (forceRefresh) localStorage.removeItem(...)`
tsAfterForce(forceRefresh) == IF forceRefresh THEN "none" ELSE cacheTs

\* what the per-routine slot queries of the given routines can answer: the
\* snapshots reduced to the routines that have slots
SlotAnswers(ids) ==
  {m \in RemoteSnapshots :
     /\ DOMAIN m \subseteq ids
     /\ \A i \in DOMAIN m : ~m[i].isActive /\ Len(m[i].slots) > 0}

remoteSlots(remote, id) == IF id \in DOMAIN remote THEN remote[id].slots ELSE <<>>

\* fixMissingSlotData: refetch the slots of the first active routine and of
\* the inactive routines that have none; keep a routine as it is when the
\* remote returns no slots for it
fixMissingSlotData(rs, remote, first) ==
  LET incomplete == {i \in DOMAIN rs : Len(rs[i].slots) = 0}
      toFix == ({first} \cap DOMAIN rs) \cup {i \in incomplete : ~rs[i].isActive}
  IN IF DOMAIN rs = {} \/ incomplete = {} THEN rs
     ELSE [i \in DOMAIN rs |->
             IF i \in toFix /\ Len(remoteSlots(remote, i)) > 0
             THEN [rs[i] EXCEPT !.slots = remoteSlots(remote, i)]
             ELSE rs[i]]

\* `routines.find(r => r.isActive)`: the candidates for the first active one
\* (0: there is none)
FirstActive(rs) ==
  IF \E i \in DOMAIN rs : rs[i].isActive
  THEN {i \in DOMAIN rs : rs[i].isActive} ELSE {0}

\* the same find on what getAllFromIndexedDB returns, which is in key order
FirstInOrder(rs) ==
  IF \E i \in DOMAIN rs : rs[i].isActive
  THEN CHOOSE i \in DOMAIN rs : rs[i].isActive /\ \A j \in DOMAIN rs : rs[j].isActive => i <= j
  ELSE 0

\* stage 4 of the progressive load: mappedBasicRoutines (no slots), then the
\* slots of each inactive routine, from the remote or else from the cache
fullRoutines(remote, existing) ==
  [i \in DOMAIN remote |->
     LET basic == Routine(i, remote[i].name, remote[i].isActive, <<>>,
                          FALSE, FALSE, FALSE, FALSE, FALSE)
     IN IF basic.isActive THEN basic
        ELSE IF Len(remote[i].slots) > 0 THEN [basic EXCEPT !.slots = remote[i].slots]
        ELSE IF i \in DOMAIN existing /\ Len(existing[i].slots) > 0
             THEN [basic EXCEPT !.slots = existing[i].slots]
        ELSE basic]

\* the progressive fetch (part_000), from "Progressive loading approach" on;
\* ts0 is the timestamp left by the prelude
progressiveFetch(ts0) ==
  \/ \* the fetch returns routines
     \E remote \in RemoteSnapshots \ {EmptyStore} : \E first \in FirstActive(remote) :
       LET fixedRoutines == fixMissingSlotData(fullRoutines(remote, getAllFromIndexedDB(db)),
                                               remote, first)
       IN /\ routines' = fixedRoutines
          /\ db' = saveAllToIndexedDB(db, fixedRoutines)
          /\ cacheTs' = "valid"
          /\ error' = FALSE
          /\ Done("loadFetched", <<Call("selectRoutines", 0, 0)>>)
  \/ \* the fetch returns nothing
     /\ routines' = EmptyStore
     /\ UNCHANGED db
     /\ cacheTs' = ts0
     /\ error' = FALSE
     /\ Done("loadEmpty", <<Call("selectRoutines", 0, 0)>>)
  \/ \* the fetch throws: fall back to the cache, repaired where the remote answers
     LET offlineRoutines == getAllFromIndexedDB(db) IN
     \E remote \in SlotAnswers(DOMAIN offlineRoutines) :
       LET first == FirstInOrder(offlineRoutines)
           fixedRoutines == fixMissingSlotData(offlineRoutines, remote, first)
       IN /\ routines' = fixedRoutines
          /\ db' = saveAllToIndexedDB(db, fixedRoutines)
          /\ cacheTs' = ts0
          /\ error' = TRUE
          /\ Done("loadFallback", <<Failed(Call("selectRoutines", 0, 0))>>)

\* the background refresh the cached path schedules (setTimeout, 500 ms):
\* fetchRoutines, and a save when it returns routines
backgroundRefresh ==
  \/ \E remote \in RemoteSnapshots \ {EmptyStore} :
       /\ db' = saveAllToIndexedDB(db, remote)
       /\ cacheTs' = "valid"
  \/ UNCHANGED <<db, cacheTs>>

\* the cache is served: valid timestamp, a non-empty store, slots in it
servesCache(forceRefresh, isAdminView) ==
  /\ isCacheValid(forceRefresh, isAdminView)
  /\ DOMAIN getAllFromIndexedDB(db) # {}
  /\ cacheHasSlots(getAllFromIndexedDB(db))

loadOffline_keepsVisible(force) ==
  /\ UNCHANGED routines
  /\ cacheTs' = tsAfterForce(force)
  /\ UNCHANGED db
  /\ error' = FALSE
  /\ Done("loadOffline", <<>>)

\* `if (isOffline)`: the visible set is read from IndexedDB, nothing is fetched
loadOffline(force) ==
  /\ routines' = getAllFromIndexedDB(db)
  /\ cacheTs' = tsAfterForce(force)
  /\ UNCHANGED db
  /\ error' = FALSE
  /\ Done("loadOffline", <<>>)

loadRoutines(forceRefresh, isAdminView) ==
  LET force == forceRefresh \/ isAdminView
  IN /\ IF ~online
        THEN loadOffline(force)
        ELSE IF servesCache(force, isAdminView)
        THEN /\ routines' = getAllFromIndexedDB(db)
             /\ backgroundRefresh
             /\ error' = FALSE
             /\ Done("loadCached", <<Call("fetchRoutines", 0, 0)>>)
        ELSE progressiveFetch(tsAfterForce(force))
     /\ UNCHANGED <<online, syncInProgress, syncSeen, syncActive, tempCount>>

\* the call sites are loadRoutines() and loadRoutines(true): none passes
\* isAdminView
LoadRoutines ==
  \E forceRefresh \in BOOLEAN : loadRoutines(forceRefresh, FALSE)

\* the retrying load (part_001): up to MaxAttempts calls of fetchRoutines
MaxAttempts == 3

fetchLog_retriesAfterSuccess(failed) ==
  [k \in 1..failed |-> Failed(Call("fetchRoutines", 0, 0))]
    \o (IF failed < MaxAttempts
        THEN <<Call("fetchRoutines", 0, 0), Call("fetchRoutines", 0, 0)>> ELSE <<>>)

\* the calls of the retry loop: `failed` attempts that threw, then, unless
\* they were all, one that returned
fetchLog(failed) ==
  [k \in 1..failed |-> Failed(Call("fetchRoutines", 0, 0))]
    \o (IF failed < MaxAttempts THEN <<Call("fetchRoutines", 0, 0)>> ELSE <<>>)

loadRoutinesRetry(forceRefresh, isAdminView) ==
  LET force == forceRefresh \/ isAdminView
  IN /\ IF ~online
        THEN loadOffline(force)
        ELSE IF servesCache(force, isAdminView)
        THEN /\ routines' = getAllFromIndexedDB(db)
             /\ UNCHANGED <<db, cacheTs>>
             /\ error' = FALSE
             /\ Done("loadCached", <<>>)
        ELSE
          \/ \* an attempt succeeds: setRoutines, timestamp, clear the store
             \* and save what was fetched
             \E remote \in RemoteSnapshots, failed \in 0..(MaxAttempts - 1) :
               /\ routines' = remote
               /\ cacheTs' = "valid"
               /\ db' = saveAllToIndexedDB(clearIndexedDBStore(db), remote)
               /\ error' = FALSE
               /\ Done("loadFetched", fetchLog(failed))
          \/ \* every attempt failed: error, and the cache if it has anything
             /\ routines' = IF DOMAIN getAllFromIndexedDB(db) # {}
                            THEN getAllFromIndexedDB(db) ELSE routines
             /\ cacheTs' = tsAfterForce(force)
             /\ UNCHANGED db
             /\ error' = TRUE
             /\ Done("loadFallback", fetchLog(MaxAttempts))
     /\ UNCHANGED <<online, syncInProgress, syncSeen, syncActive, tempCount>>

LoadRoutinesRetry ==
  \E forceRefresh \in BOOLEAN : loadRoutinesRetry(forceRefresh, FALSE)

\* loads that ask for fresh data: loadRoutines(true), or the admin view
LoadRoutinesForced ==
  \E forceRefresh, isAdminView \in BOOLEAN :
    (forceRefresh \/ isAdminView) /\ loadRoutines(forceRefresh, isAdminView)

LoadRoutinesRetryForced ==
  \E forceRefresh, isAdminView \in BOOLEAN :
    (forceRefresh \/ isAdminView) /\ loadRoutinesRetry(forceRefresh, isAdminView)

(* --------------------------- refreshRoutineSlots ----------------------- *)
\* `slots` is what the remote returns for the routine; nothing is written
\* when the fetch fails or returns no slots
\* (the logged call carries the number of slots returned as its tag)
refreshRoutineSlots(routineId, slots, outcome) ==
  /\ IF outcome = "ok" /\ Len(slots) > 0
     THEN /\ routines' = MapAll(routines, LAMBDA r : IF r.id = routineId
                                                     THEN [r EXCEPT !.slots = slots] ELSE r)
          /\ db' = saveAllToIndexedDB(db,
                     MapAll(getAllFromIndexedDB(db),
                            LAMBDA r : IF r.id = routineId
                                       THEN [r EXCEPT !.slots = slots] ELSE r))
     ELSE UNCHANGED <<db, routines>>
  /\ Done("refreshRoutineSlots",
          <<IF outcome = "ok" THEN Call4("selectSlots", routineId, 0, Len(slots))
            ELSE Failed(Call("selectSlots", routineId, 0))>>)
  /\ UNCHANGED <<online, cacheTs, syncInProgress, syncSeen, syncActive, error, tempCount>>

RefreshRoutineSlots ==
  \E rid \in KnownIds, outcome \in {"ok", "throw"} :
    \E slots \in CleanSlots(rid) :
      /\ (outcome = "throw" => slots = <<>>)
      /\ refreshRoutineSlots(rid, slots, outcome)

(* ------------------------------ mount effect -------------------------- *)
\* the effect runs after the mount and after every change of isOffline; its
\* three calls are taken one after the other
EffectRunning ==
  lastOp \in {"prefetchRoutineData", "refreshRoutineSlots", "verifyComplete", "verifyNoData"}

\* `if (isOffline) return;` then the queries of the critical path; nothing is
\* kept of what they return
prefetchRoutineData ==
  /\ mounted
  /\ lastOp \in {"init", "env"}
  /\ Done("prefetchRoutineData",
          IF online THEN <<Call("selectActiveRoutine", 0, 0)>> ELSE <<>>)
  /\ UNCHANGED <<online, db, routines, cacheTs, syncInProgress, syncSeen, syncActive,
                 error, tempCount>>

\* the stored active routine has no slots: refreshRoutineSlots; the result
\* (complete or not) decides how the effect loads
verifyRoutineDataCompleteness ==
  /\ lastOp = "prefetchRoutineData"
  /\ LET storedRoutines == getAllFromIndexedDB(db)
         activeRoutine == FirstInOrder(storedRoutines)
     IN IF activeRoutine # 0 /\ Len(storedRoutines[activeRoutine].slots) = 0
        THEN \E outcome \in {"ok", "throw"} :
               \E slots \in CleanSlots(activeRoutine) :
                 /\ (outcome = "throw" => slots = <<>>)
                 /\ refreshRoutineSlots(activeRoutine, slots, outcome)
        ELSE /\ Done(IF DOMAIN storedRoutines # {} THEN "verifyComplete" ELSE "verifyNoData",
                     <<>>)
             /\ UNCHANGED <<online, db, routines, cacheTs, syncInProgress, syncSeen,
                            syncActive, error, tempCount>>

\* `.then(isComplete => isComplete ? loadRoutines() : loadRoutines(true))`
EffectLoad ==
  \/ /\ lastOp \in {"refreshRoutineSlots", "verifyNoData"}
     /\ loadRoutines(TRUE, FALSE)
  \/ /\ lastOp = "verifyComplete"
     /\ loadRoutines(FALSE, FALSE)

\* the component is torn down: the effect's cleanup runs
Unmount ==
  /\ mounted
  /\ mounted' = FALSE
  /\ subscribed' = subscribe(FALSE, online)
  /\ UNCHANGED <<importResult, publishes, inflight, slotCalls, intent>>
  /\ Finish("unmount", <<>>)
  /\ UNCHANGED <<online, db, routines, cacheTs, syncInProgress, syncSeen, syncActive,
                 error, tempCount>>

\* a postgres_changes event on the channel: `() => { loadRoutines(true); }`
ChangeEvent ==
  /\ subscribed
  /\ loadRoutines(TRUE, FALSE)

ChangeEventRetry ==
  /\ subscribed
  /\ loadRoutinesRetry(TRUE, FALSE)

(* ------------------- the publishes of a progressive load --------------- *)
\* mappedBasicRoutines: the fetched routines without slots
mappedBasicRoutines(remote) ==
  [i \in DOMAIN remote |->
     Routine(i, remote[i].name, remote[i].isActive, <<>>, FALSE, FALSE, FALSE, FALSE, FALSE)]

\* one setRoutines call: the set published, and the ids of the slots in it
\* that carry course and teacher names
Publish(set, enriched) == [set |-> set, enriched |-> enriched]

\* stages 2 and 3, for the first active routine (0: none): its slots, then
\* the same slots enriched when they refer to courses or teachers; when the
\* remote returns no slots for it, the cached ones
activePublishes(remote, existing, first, enrich) ==
  LET basic == mappedBasicRoutines(remote)
  IN IF first = 0 THEN <<>>
     ELSE IF Len(remote[first].slots) > 0
     THEN LET updatedRoutines == [basic EXCEPT ![first].slots = remote[first].slots]
          IN <<Publish(updatedRoutines, {})>>
               \o (IF enrich
                   THEN <<Publish(updatedRoutines, SlotIdsOf(remote[first]))>> ELSE <<>>)
     ELSE IF first \in DOMAIN existing /\ Len(existing[first].slots) > 0
     THEN <<Publish([basic EXCEPT ![first].slots = existing[first].slots], {})>>
     ELSE <<>>

\* the setRoutines calls of a load whose fetch returned routines: stage 1
\* (the cache if it has slots and the load is not forced, else the basic
\* data), stages 2 and 3, and the result of stage 4 after fixMissingSlotData
stagedPublishes(remote, existing, forceRefresh, first, enrich) ==
  LET stage1 == IF DOMAIN existing # {} /\ cacheHasSlots(existing) /\ ~forceRefresh
                THEN existing ELSE mappedBasicRoutines(remote)
      fixedRoutines == fixMissingSlotData(fullRoutines(remote, existing), remote, first)
  IN <<Publish(stage1, {})>>
       \o activePublishes(remote, existing, first, enrich)
       \o <<Publish(fixedRoutines, {})>>

\* loadRoutines on the path where the fetch returns routines, with its
\* publishes recorded; forceRefresh is the flag as it stands after the cache
\* check
stagedLoad(forceRefresh, isAdminView) ==
  LET force == forceRefresh \/ isAdminView
      existing == getAllFromIndexedDB(db)
      forced == force \/ (isCacheValid(force, isAdminView) /\ DOMAIN existing # {})
  IN /\ online
     /\ ~servesCache(force, isAdminView)
     /\ \E remote \in RemoteSnapshots \ {EmptyStore} :
          \E first \in FirstActive(remote), enrich \in BOOLEAN :
            LET pubs == stagedPublishes(remote, existing, forced, first, enrich)
                fixedRoutines == pubs[Len(pubs)].set
            IN /\ publishes' = pubs
               /\ routines' = fixedRoutines
               /\ db' = saveAllToIndexedDB(db, fixedRoutines)
               /\ cacheTs' = "valid"
               /\ error' = FALSE
               /\ Finish("loadFetched", <<Call("selectRoutines", 0, 0)>>)
     /\ UNCHANGED <<online, syncInProgress, syncSeen, syncActive, tempCount,
                    mounted, subscribed, importResult, inflight, slotCalls, intent>>

StagedLoad == \E forceRefresh \in BOOLEAN : stagedLoad(forceRefresh, FALSE)

(* --------------------------- overlapping loads ------------------------- *)
\* a load that has fetched and not yet written: loadRoutines up to the answer
\* of the remote queries. The timestamp is removed at once when the load is
\* forced; what the load will publish is fixed by what it fetched and by the
\* cache it read before fetching.
startLoad(forceRefresh) ==
  /\ online
  /\ Len(inflight) < MaxLoads
  /\ ~servesCache(forceRefresh, FALSE)
  /\ \E remote \in RemoteSnapshots \ {EmptyStore} :
       \E first \in FirstActive(remote) :
         LET existing == getAllFromIndexedDB(db)
             fixedRoutines == fixMissingSlotData(fullRoutines(remote, existing), remote, first)
         IN inflight' = Append(inflight, [forceRefresh |-> forceRefresh,
                                          fixedRoutines |-> fixedRoutines,
                                          done |-> FALSE])
  /\ cacheTs' = tsAfterForce(forceRefresh)
  /\ error' = FALSE
  /\ Finish("loadStart", <<Call("selectRoutines", 0, 0)>>)
  /\ UNCHANGED <<online, db, routines, syncInProgress, syncSeen, syncActive, tempCount,
                 mounted, subscribed, importResult, publishes, slotCalls, intent>>

StartLoad == \E forceRefresh \in BOOLEAN : startLoad(forceRefresh)

\* the rest of load k: it publishes what it fetched, saves it and sets the
\* timestamp, whichever load started or finished in between
finishLoad(k) ==
  /\ k \in 1..Len(inflight)
  /\ ~inflight[k].done
  /\ routines' = inflight[k].fixedRoutines
  /\ db' = saveAllToIndexedDB(db, inflight[k].fixedRoutines)
  /\ cacheTs' = "valid"
  /\ inflight' = [inflight EXCEPT ![k].done = TRUE]
  /\ Finish("loadFetched", <<>>)
  /\ UNCHANGED <<online, syncInProgress, syncSeen, syncActive, error, tempCount,
                 mounted, subscribed, importResult, publishes, slotCalls, intent>>

FinishLoad == \E k \in 1..MaxLoads : finishLoad(k)

(* ----------------------------- bulkImportSlots ------------------------- *)
offlineImportResult_noError == [success |-> 0, errors |-> 0]

\* `if (isOffline) return { success: 0, errors: [{ message: ... }] }`
offlineImportResult == [success |-> 0, errors |-> 1]

\* up to the service's answer: `success` and `nErrors` are what
\* bulkImportRoutineSlotsService reports; a throw is turned into a result
\* with one error
bulkImportSlots(routineId, success, nErrors) ==
  /\ IF ~online
     THEN /\ importResult' = offlineImportResult
          /\ Finish("bulkImportSlots", <<>>)
     ELSE \/ /\ importResult' = [success |-> success, errors |-> nErrors]
             /\ Finish("bulkImportService", <<Call("bulkImportRoutineSlots", routineId, 0)>>)
          \/ /\ importResult' = [success |-> 0, errors |-> 1]
             /\ Finish("bulkImportSlots", <<Failed(Call("bulkImportRoutineSlots", routineId, 0))>>)
  /\ UNCHANGED <<online, db, routines, cacheTs, syncInProgress, syncSeen, syncActive,
                 error, tempCount, mounted, subscribed, publishes, inflight, slotCalls, intent>>

BulkImportSlots ==
  \E rid \in ServerIds, success \in 0..MaxImport, nErrors \in 0..MaxImport :
    bulkImportSlots(rid, success, nErrors)

\* the service has answered and `await loadRoutines(true)` is next
ImportPending == lastOp = "bulkImportService"

\* the rest of the online import: the forced load, then `return result`
BulkImportLoad ==
  /\ ImportPending
  /\ loadRoutines(TRUE, FALSE)

BulkImportLoadRetry ==
  /\ ImportPending
  /\ loadRoutinesRetry(TRUE, FALSE)

\* time passes: the timestamp leaves the validity window
Tick ==
  /\ cacheTs = "valid"
  /\ cacheTs' = "stale"
  /\ Done("env", <<>>)
  /\ UNCHANGED <<online, db, routines, syncInProgress, syncSeen, syncActive, error, tempCount>>

\* the mutations and the reconciliation; every handler runs to completion
\* in one step
Next ==
  \/ GoOffline
  \/ GoOnline
  \/ CreateRoutine
  \/ UpdateRoutine
  \/ DeleteRoutine
  \/ ActivateRoutine
  \/ DeactivateRoutine
  \/ AddRoutineSlot
  \/ UpdateRoutineSlot
  \/ DeleteRoutineSlot
  \/ syncOfflineChanges

Spec == Init /\ [][Next]_vars

\* offline edits followed by loads, of either version of the hook
NextLoad ==
  \/ GoOffline
  \/ GoOnline
  \/ Tick
  \/ UpdateRoutine
  \/ DeleteRoutine
  \/ AddRoutineSlot
  \/ LoadRoutines
  \/ LoadRoutinesRetry

SpecLoad == Init /\ [][NextLoad]_vars

\* deletes, the clock, and loads that are all forced
NextForce ==
  \/ GoOffline
  \/ GoOnline
  \/ Tick
  \/ DeleteRoutine
  \/ LoadRoutinesForced
  \/ LoadRoutinesRetryForced

SpecForce == Init /\ [][NextForce]_vars

\* connectivity, teardown, the clock, and loads started by change events only
NextSub ==
  \/ GoOffline
  \/ GoOnline
  \/ Tick
  \/ Unmount
  \/ ChangeEvent
  \/ ChangeEventRetry

SpecSub == Init /\ [][NextSub]_vars

\* bulk imports; nothing else runs between the service's answer and the
\* load that the import awaits
NextImport ==
  \/ ~ImportPending /\ GoOffline
  \/ ~ImportPending /\ GoOnline
  \/ ~ImportPending /\ Tick
  \/ ~ImportPending /\ BulkImportSlots
  \/ BulkImportLoad
  \/ BulkImportLoadRetry

SpecImport == Init /\ [][NextImport]_vars

\* connectivity, the clock, and progressive loads with their publishes recorded
NextStages ==
  \/ GoOffline
  \/ GoOnline
  \/ Tick
  \/ StagedLoad

SpecStages == Init /\ [][NextStages]_vars

\* connectivity, the clock, and loads that overlap
NextOverlap ==
  \/ GoOffline
  \/ GoOnline
  \/ Tick
  \/ StartLoad
  \/ FinishLoad

SpecOverlap == Init /\ [][NextOverlap]_vars

\* connectivity and offline addRoutineSlot calls issued back-to-back
NextAdds ==
  \/ GoOffline
  \/ GoOnline
  \/ AddSlotRead
  \/ AddSlotWrite

SpecAdds == Init /\ [][NextAdds]_vars

\* connectivity changes, each followed by a run of the mount effect
NextMount ==
  \/ (~EffectRunning /\ GoOffline)
  \/ (~EffectRunning /\ GoOnline)
  \/ prefetchRoutineData
  \/ verifyRoutineDataCompleteness
  \/ EffectLoad

SpecMount == Init /\ [][NextMount]_vars

\* the stores a previous session leaves when its last two gestures, made
\* offline on the same routine, were deactivate then activate, or activate
\* then deactivate
IntentStores(id, op) ==
  {IF op = "activate"
   THEN MapAll(MapAll(m, LAMBDA r : deactivateOffline(r, id)),
               LAMBDA r : activateOffline(r, id))
   ELSE MapAll(MapAll(m, LAMBDA r : activateOffline(r, id)),
               LAMBDA r : deactivateOffline(r, id)) :
     m \in {c \in CleanStores : id \in DOMAIN c}}

InitIntent ==
  /\ online \in BOOLEAN
  /\ intent \in [id : ServerIds, op : {"activate", "deactivate"}]
  /\ db \in IntentStores(intent.id, intent.op)
  /\ routines = EmptyStore
  /\ cacheTs = "none"
  /\ syncInProgress = FALSE
  /\ syncSeen = FALSE
  /\ syncActive = 0
  /\ error = FALSE
  /\ tempCount = 0
  /\ lastOp = "init"
  /\ gatewayLog = <<>>
  /\ steps = 0
  /\ mounted = TRUE
  /\ subscribed = online
  /\ importResult = [success |-> 0, errors |-> 0]
  /\ publishes = <<>>
  /\ inflight = <<>>
  /\ slotCalls = <<>>
  /\ loading = TRUE

\* connectivity and reconcile passes over such a store
NextIntent ==
  \/ GoOffline
  \/ GoOnline
  \/ syncOfflineChanges

SpecIntent == InitIntent /\ [][NextIntent]_vars

\* offline edits followed by slot refreshes
NextRefresh ==
  \/ GoOffline
  \/ GoOnline
  \/ UpdateRoutine
  \/ AddRoutineSlot
  \/ UpdateRoutineSlot
  \/ DeleteRoutineSlot
  \/ RefreshRoutineSlots

SpecRefresh == Init /\ [][NextRefresh]_vars

\* syncOfflineChanges in two steps, so that two invocations can overlap
NextGuard ==
  \/ GoOffline
  \/ GoOnline
  \/ Render
  \/ CreateRoutine
  \/ DeleteRoutine
  \/ ActivateRoutine
  \/ AddRoutineSlot
  \/ SyncStart
  \/ SyncPass

SpecGuard == Init /\ [][NextGuard]_vars

\* the exploration is cut so that every invocation past the guard has a step
\* left to finish in
Room(n) == steps + syncActive + n <= MaxSteps

\* an invocation past the guard runs on: its awaits resolve or reject
SyncEnd == SyncPass \/ SyncRaise

\* reconcile invocations in two steps, ending normally or in the catch
NextRelease ==
  \/ (Room(1) /\ GoOffline)
  \/ (Room(1) /\ GoOnline)
  \/ (Room(1) /\ Render)
  \/ (Room(1) /\ DeleteRoutine)
  \/ (Room(2) /\ SyncStart)
  \/ SyncPass
  \/ SyncRaise

SpecRelease == Init /\ [][NextRelease]_vars /\ WF_vars(SyncEnd)

(* ----------------------------- properties ------------------------------ *)
ActiveIn(store) == {i \in DOMAIN store : store[i].isActive}

SlotsOf(store) == UNION {{store[i].slots[k] : k \in 1..Len(store[i].slots)} : i \in DOMAIN store}

\* C2: after a reconcile pass in which the remote create of a Routine made
\* offline under temporary id T succeeded, no Routine of the Local Store has
\* id T and no Slot of it has routineId T.
C2_NoTempIdAfterCreateSynced ==
  lastOp = "syncOfflineChanges" =>
    \A c \in CallsOf(gatewayLog) :
      (c.op = "createRoutine" /\ c.ok) =>
        /\ c.tag \notin DOMAIN db
        /\ \A sl \in SlotsOf(db) : sl.routineId # c.tag

\* C3: a Routine created offline (temporary id X) and deleted before
\* reconnecting is gone from the Local Store after the reconcile pass, and the
\* pass issues no create call for it.
C3_DeletedCreationGoneAfterReconcile ==
  [][lastOp' = "syncOfflineChanges" =>
       \A x \in TempIds :
         (x \in DOMAIN db /\ db[x].isOfflineDeleted) =>
           /\ x \notin DOMAIN db'
           /\ \A c \in CallsOf(gatewayLog') : ~(c.op = "createRoutine" /\ c.tag = x)]_vars

\* C4: in one reconcile pass the delete call of a Routine with pendingDelete
\* is issued before the create call of a pendingCreate Slot of a different
\* Routine, whatever the order of the two Routines in the store.
C4_DeleteBeforeSlotCreate ==
  lastOp = "syncOfflineChanges" =>
    \A j, k \in 1..Len(gatewayLog) :
      (/\ gatewayLog[j].op = "addRoutineSlot"
       /\ gatewayLog[k].op = "deleteRoutine"
       /\ gatewayLog[j].id # gatewayLog[k].id) => k < j

LoadOps == {"loadOffline", "loadCached", "loadFetched", "loadEmpty", "loadFallback"}

\* C5, as stated: when online and the Local Store holds a Routine with zero
\* Slots, a load (forced loads fetch anyway, so this is about
\* forceRefresh = false) is never served from the cache and always fetches
\* remotely, even inside the validity window.
C5_ZeroSlotRoutineForcesFetch ==
  [][(/\ online
      /\ lastOp' \in LoadOps
      /\ \E i \in DOMAIN db : Len(db[i].slots) = 0)
       => (lastOp' # "loadCached" /\ gatewayLog' # <<>>)]_vars

\* C5, amended: when online and no Routine of the Local Store has any Slot,
\* load(forceRefresh = false) is never served from the cache and always
\* fetches remotely, even inside the validity window; the cache is served
\* only inside the window and when some Routine of the store has Slots,
\* whether or not another Routine of it has none.
C5_SlotlessCacheForcesFetch ==
  [][(online /\ lastOp' \in LoadOps) =>
       /\ (\A i \in DOMAIN db : Len(db[i].slots) = 0) =>
            (lastOp' \in {"loadFetched", "loadEmpty", "loadFallback"} /\ gatewayLog' # <<>>)
       /\ lastOp' = "loadCached" =>
            (cacheTs = "valid" /\ \E i \in DOMAIN db : Len(db[i].slots) > 0)]_vars

\* a load(false) inside the validity window over a store whose Routines have
\* no Slots went to the remote (and fell back when the fetch threw)
C5_Witness ==
  /\ online
  /\ lastOp = "loadFallback"
  /\ cacheTs = "valid"
  /\ DOMAIN db # {}
  /\ \A i \in DOMAIN db : Len(db[i].slots) = 0

\* C6: after a Routine's delete (online, or offline and then reconciled) whose
\* remote call succeeded, neither the Routine nor any Slot of it is
\* retrievable from the Local Store.
C6_NoOrphanSlotsAfterDelete ==
  lastOp \in {"deleteRoutine", "syncOfflineChanges"} =>
    \A c \in CallsOf(gatewayLog) :
      (c.op = "deleteRoutine" /\ c.ok) =>
        /\ c.id \notin DOMAIN db
        /\ \A sl \in SlotsOf(db) : sl.routineId # c.id

\* C7: no call of a reconcile pass carries a temporary Routine or Slot id as
\* the identifier of an existing entity.
C7_NoTempIdSentToGateway ==
  lastOp = "syncOfflineChanges" =>
    \A c \in CallsOf(gatewayLog) : ~IsTemp(c.id) /\ ~IsTemp(c.slot)

\* C8: no Routine and no Slot of the Local Store is marked pendingCreate and
\* pendingDelete at once.
C8_CreateDeleteExclusive ==
  /\ \A i \in DOMAIN db : ~(db[i].isOffline /\ db[i].isOfflineDeleted)
  /\ \A sl \in SlotsOf(db) : ~(sl.isOffline /\ sl.isOfflineDeleted)

\* C9: at most one reconcile pass is in progress at any time.
C9_SingleFlight == syncActive <= 1

\* C10: an online load leaves every Routine of the Local Store that carries a
\* pending marker (its own or a Slot's) in the store, as it was.
C10_LoadKeepsPendingEdits ==
  [][(online /\ lastOp' \in LoadOps) =>
       \A i \in DOMAIN db :
         routinePending(db[i]) => (i \in DOMAIN db' /\ db'[i] = db[i])]_vars

\* C11: once a create call for a Routine or Slot made offline has succeeded,
\* a later reconcile pass issues no create call for the same entity.
C11_NoSecondCreate ==
  [][(lastOp = "syncOfflineChanges" /\ lastOp' = "syncOfflineChanges") =>
       \A c \in CallsOf(gatewayLog) :
         (c.op \in {"createRoutine", "addRoutineSlot"} /\ c.tag # 0 /\ c.ok) =>
           \A d \in CallsOf(gatewayLog') : ~(d.op = c.op /\ d.tag = c.tag)]_vars

\* C12: a reconcile pass run online in which every Remote Gateway call
\* succeeded leaves no Routine and no Slot of the Local Store with a pending
\* marker.
C12_ReconcileDrainsMarkers ==
  (lastOp = "syncOfflineChanges" /\ \A c \in CallsOf(gatewayLog) : c.ok) =>
    \A i \in DOMAIN db : ~routinePending(db[i])

FailedIn(log) == {k \in 1..Len(log) : ~log[k].ok}

AsIssued(log) == {[log[k] EXCEPT !.ok = TRUE] : k \in 1..Len(log)}

\* the pending marker a Remote Gateway call of a reconcile pass is issued
\* for is (still) set in the store
MarkerPresent(store, c) ==
  LET r == IF c.op = "createRoutine" THEN c.tag ELSE c.id
      sid == IF c.op = "addRoutineSlot" THEN c.tag ELSE c.slot
  IN /\ r \in DOMAIN store
     /\ CASE c.op = "deleteRoutine" -> store[r].isOfflineDeleted
          [] c.op = "activateRoutine" -> store[r].needsActivationSync
          [] c.op = "deactivateRoutine" -> store[r].needsDeactivationSync
          [] c.op = "createRoutine" -> store[r].isOffline
          [] c.op = "updateRoutine" -> store[r].isOfflineUpdated
          [] c.op = "deleteRoutineSlot" ->
               \E sl \in SlotsOf(store) : sl.id = sid /\ sl.routineId = r /\ sl.isOfflineDeleted
          [] c.op = "addRoutineSlot" ->
               \E sl \in SlotsOf(store) : sl.id = sid /\ sl.routineId = r /\ sl.isOffline
          [] c.op = "updateRoutineSlot" ->
               \E sl \in SlotsOf(store) : sl.id = sid /\ sl.routineId = r /\ sl.isOfflineUpdated
          [] OTHER -> FALSE

\* C13: in a reconcile pass a failed Remote Gateway call is counted and not
\* raised (the error state is untouched), the pass issues the same calls as
\* it would if none failed, and the marker of every failed item is still in
\* the Local Store after the pass.
C13_ItemsSyncedIndependently ==
  [][lastOp' = "syncOfflineChanges" =>
       LET failed == {gatewayLog'[k] : k \in FailedIn(gatewayLog')}
           fails == {[c EXCEPT !.ok = TRUE] : c \in failed}
           res == syncResult(getAllFromIndexedDB(db), fails,
                             [t \in TempIds |-> 1], [t \in TempSlotIds |-> 1])
       IN /\ error' = error
          /\ res.syncErrors = Cardinality(FailedIn(gatewayLog'))
          /\ AsIssued(gatewayLog') = Attempted(getAllFromIndexedDB(db))
          /\ \A c \in failed : MarkerPresent(db', c)]_vars

\* a pass in which one call failed and another succeeded
C13_Witness ==
  /\ lastOp = "syncOfflineChanges"
  /\ \E j, k \in 1..Len(gatewayLog) :
       /\ ~gatewayLog[j].ok /\ gatewayLog[k].ok
       /\ MarkerPresent(db, gatewayLog[j])

\* C14: a reconcile pass writes the Local Store, publishes the synced set and
\* refreshes the freshness timestamp exactly when at least one of its Remote
\* Gateway calls succeeded; otherwise store, visible set and timestamp are
\* the same as before the pass.
C14_WritesIffSomethingSynced ==
  [][lastOp' = "syncOfflineChanges" =>
       IF \E c \in CallsOf(gatewayLog') : c.ok
       THEN /\ cacheTs' = "valid"
            /\ db' = saveAllToIndexedDB(db, routines')
       ELSE /\ db' = db
            /\ routines' = routines
            /\ cacheTs' = cacheTs]_vars

\* a pass with a successful and a failed call has refreshed the timestamp
C14_Witness ==
  /\ lastOp = "syncOfflineChanges"
  /\ \E c, d \in CallsOf(gatewayLog) : c.ok /\ ~d.ok
  /\ cacheTs = "valid"
  /\ \A i \in DOMAIN routines : i \in DOMAIN db /\ db[i] = routines[i]

\* C15: at most one Routine of the Local Store has isActive = true; stated
\* over steps: no create, delete, activate, deactivate or reconcile takes a
\* store with at most one active Routine to a store with more than one.
C15_AtMostOneActive ==
  [][Cardinality(ActiveIn(db)) <= 1 => Cardinality(ActiveIn(db')) <= 1]_vars

\* C16: a load made while offline, with either forceRefresh, issues no Remote
\* Gateway call, leaves the Local Store alone and publishes exactly the
\* store's contents (the empty set when the store is empty).
C16_OfflineLoadServesStore ==
  [][(~online /\ lastOp' \in LoadOps) =>
       /\ lastOp' = "loadOffline"
       /\ gatewayLog' = <<>>
       /\ db' = db
       /\ routines' = db]_vars

\* an offline load over a store that differed from the visible set
C16_Witness ==
  /\ lastOp = "loadOffline"
  /\ ~online
  /\ gatewayLog = <<>>
  /\ DOMAIN db # {}
  /\ routines = db
  /\ \E i \in DOMAIN db : routinePending(db[i])

\* what a load published is in the Local Store as published
Persisted == \A i \in DOMAIN routines : i \in DOMAIN db /\ db[i] = routines[i]

\* C17, as stated: an online load with forceRefresh or the admin view always
\* fetches, whatever the timestamp and the cache; when the fetch succeeds its
\* result is in the Local Store and the timestamp is set.
C17_ForcedLoadFetchesAndPersists ==
  [][(online /\ lastOp' \in LoadOps) =>
       /\ lastOp' \in {"loadFetched", "loadEmpty", "loadFallback"}
       /\ gatewayLog' # <<>>
       /\ (\A c \in CallsOf(gatewayLog') : c.ok) => (cacheTs' = "valid" /\ Persisted')]_vars

\* C18: when the fetch of an online load fails and the Local Store holds a
\* Routine, the load publishes the store's contents and reports no error; an
\* error is reported only when the fetch failed and the store is empty.
C18_FallbackReportsNoError ==
  [][(online /\ lastOp' = "loadFallback") =>
       IF DOMAIN db # {}
       THEN routines' = db' /\ ~error'
       ELSE error']_vars

\* C19: after an online delete whose Remote Gateway call succeeded the
\* freshness timestamp is not valid, so that the next load fetches.
C19_DeleteInvalidatesTimestamp ==
  (/\ lastOp = "deleteRoutine"
   /\ gatewayLog # <<>>
   /\ \A c \in CallsOf(gatewayLog) : c.ok)
    => cacheTs # "valid"

MutationOps ==
  {"createRoutine", "updateRoutine", "deleteRoutine", "addRoutineSlot",
   "updateRoutineSlot", "deleteRoutineSlot", "activateRoutine", "deactivateRoutine"}

\* C20: a mutation that does not take effect records an error: one whose
\* Remote Gateway call failed, and an activation whose target is not in the
\* Local Store (after which no Routine of the store is active).
C20_NoSilentFailure ==
  [][/\ (lastOp' \in MutationOps /\ \E c \in CallsOf(gatewayLog') : ~c.ok) => error'
     /\ (~online /\ lastOp' = "activateRoutine" /\ ActiveIn(db') = {}) => error']_vars

\* C21: an offline delete issues no Remote Gateway call and drops no record
\* of the Local Store; the synced Routine it takes out of the visible set
\* stays in the store, with the deletion marker as its only change.
C21_OfflineDeleteKeepsTombstone ==
  [][(~online /\ lastOp' = "deleteRoutine") =>
       /\ gatewayLog' = <<>>
       /\ DOMAIN db' = DOMAIN db
       /\ \A i \in DOMAIN db :
            \/ db'[i] = db[i]
            \/ (i \notin DOMAIN routines' /\ db'[i] = [db[i] EXCEPT !.isOfflineDeleted = TRUE])
       /\ \A i \in DOMAIN routines \ DOMAIN routines' :
            (i \in DOMAIN db /\ ~db[i].isOffline) => db'[i].isOfflineDeleted]_vars

\* a synced Routine deleted offline: tombstone in the store, not visible
C21_Witness ==
  /\ lastOp = "deleteRoutine"
  /\ ~online
  /\ gatewayLog = <<>>
  /\ \E i \in DOMAIN db :
       /\ ~IsTemp(i) /\ ~db[i].isOffline /\ db[i].isOfflineDeleted
       /\ i \notin DOMAIN routines
  /\ DOMAIN routines # {}

Markers(r) ==
  <<r.isOffline, r.isOfflineUpdated, r.isOfflineDeleted,
    r.needsActivationSync, r.needsDeactivationSync>>

\* C22: an offline activate or deactivate changes the pending markers of the
\* target only, so of at most one Routine of the Local Store.
C22_OnlyTargetMarkersChange ==
  [][(~online /\ lastOp' \in {"activateRoutine", "deactivateRoutine"}) =>
       Cardinality({i \in DOMAIN db \cap DOMAIN db' :
                      Markers(db'[i]) # Markers(db[i])}) <= 1]_vars

\* C23: in a reconcile pass that creates a Routine made offline, every Slot
\* added offline under that Routine is created remotely in the same pass,
\* under a server-assigned Routine id.
C23_OwnedSlotsCreatedAfterRoutine ==
  [][lastOp' = "syncOfflineChanges" =>
       \A c \in CallsOf(gatewayLog') :
         (c.op = "createRoutine" /\ c.ok /\ c.tag \in DOMAIN db) =>
           \A k \in 1..Len(db[c.tag].slots) :
             db[c.tag].slots[k].isOffline =>
               \E d \in CallsOf(gatewayLog') :
                 /\ d.op = "addRoutineSlot"
                 /\ d.tag = db[c.tag].slots[k].id
                 /\ d.id \in ServerIds]_vars

\* C24: after a refresh of a Routine's Slots whose fetch succeeded, the
\* Routine's Slots in the Local Store and in the visible set are the ones
\* the remote returned: none, when it returned none.
C24_RefreshOverwritesSlots ==
  [][(lastOp' = "refreshRoutineSlots" /\ gatewayLog'[1].ok /\ gatewayLog'[1].tag = 0) =>
       LET id == gatewayLog'[1].id
       IN /\ id \in DOMAIN db' => db'[id].slots = <<>>
          /\ id \in DOMAIN routines' => routines'[id].slots = <<>>]_vars

\* C25: the change subscription exists only while online and mounted, so it
\* is gone after going offline or after teardown; a load started by a change
\* event is a forced load: it drops the timestamp and fetches, it never
\* serves the cache.
C25_SubscribedOnlyOnline ==
  [][/\ subscribed => (online /\ mounted)
     /\ subscribed' => (online' /\ mounted')
     /\ lastOp' \in LoadOps =>
          /\ subscribed /\ online
          /\ lastOp' \in {"loadFetched", "loadEmpty", "loadFallback"}
          /\ gatewayLog' # <<>>
          /\ lastOp' \in {"loadEmpty", "loadFallback"} => cacheTs' = "none"]_vars

\* the subscription was torn down by going offline after an event's load
C25_Witness ==
  /\ ~online
  /\ mounted
  /\ ~subscribed
  /\ cacheTs = "valid"
  /\ routines # EmptyStore

\* C26: a bulk import made offline returns success = 0 with exactly one
\* error, issues no Remote Gateway call and leaves the Local Store, the
\* visible set and the timestamp as they were.
C26_OfflineImportRejected ==
  [][(~online /\ lastOp' \in {"bulkImportSlots", "bulkImportService"}) =>
       /\ lastOp' = "bulkImportSlots"
       /\ importResult' = [success |-> 0, errors |-> 1]
       /\ gatewayLog' = <<>>
       /\ UNCHANGED <<db, routines, cacheTs>>]_vars

\* an offline import rejected after an online one had loaded routines
C26_Witness ==
  /\ lastOp = "bulkImportSlots"
  /\ ~online
  /\ gatewayLog = <<>>
  /\ importResult = [success |-> 0, errors |-> 1]
  /\ routines # EmptyStore
  /\ cacheTs = "valid"

\* C27: offline as online, an activation whose target is not in the Local
\* Store (no record carries the activation marker afterwards) is an error,
\* and a delete never is.
C27_AbsentIdErrorUnlessDelete ==
  [][~online =>
       /\ (lastOp' = "activateRoutine" /\ \A i \in DOMAIN db' : ~db'[i].needsActivationSync)
            => error'
       /\ lastOp' = "deleteRoutine" => ~error']_vars

\* publish q shows, for every Routine also in publish p, at least as many
\* Slots as p and every enriched Slot of p enriched
NoLess(p, q) ==
  \A i \in DOMAIN p.set \cap DOMAIN q.set :
    /\ Len(q.set[i].slots) >= Len(p.set[i].slots)
    /\ (SlotIdsOf(p.set[i]) \cap p.enriched) \subseteq (SlotIdsOf(q.set[i]) \cap q.enriched)

\* C28: the publishes of one progressive load are monotonic: a later publish
\* never shows less Slot data or enrichment for a Routine than an earlier
\* publish of the same load.
C28_StagedPublishesMonotonic ==
  \A j, k \in 1..Len(publishes) : j < k => NoLess(publishes[j], publishes[k])

\* C29: an online load only adds to the Local Store: every Routine stored
\* before the load is still stored after it, with at least the Slots it had.
C29_LoadOnlyAddsToStore ==
  [][(online /\ lastOp' \in {"loadFetched", "loadEmpty", "loadFallback"}) =>
       \A i \in DOMAIN db :
         /\ i \in DOMAIN db'
         /\ SlotIdsOf(db[i]) \subseteq SlotIdsOf(db'[i])]_vars

\* C30: when two loads overlap and the later-started one is forced, then once
\* both have finished the visible set and the Local Store hold what the
\* later-started load fetched, and the timestamp is set.
C30_LaterForcedLoadWins ==
  (/\ Len(inflight) = 2
   /\ inflight[1].done
   /\ inflight[2].done
   /\ inflight[2].forceRefresh) =>
    /\ routines = inflight[2].fixedRoutines
    /\ Persisted
    /\ cacheTs # "none"

\* C31: when two addRoutineSlot calls on the same Routine have both completed,
\* the Local Store copy of the Routine holds the Slot of each.
C31_NoLostSlotUpdate ==
  \A j, k \in 1..Len(slotCalls) :
    LET a == slotCalls[j]
        b == slotCalls[k]
    IN (/\ j # k
        /\ a.done /\ b.done
        /\ a.routineId = b.routineId
        /\ a.routineId \in DOMAIN a.updatedRoutines \cap DOMAIN b.updatedRoutines) =>
         {a.newSlot.id, b.newSlot.id} \subseteq SlotIdsOf(db[a.routineId])

\* C32: after a forced online load that fetched successfully while nothing in
\* the Local Store was pending, the Local Store holds exactly the Routines the
\* load published from the fetch: a Routine the Remote Gateway no longer
\* returns is no longer stored.
C32_StoreConvergesOnForcedLoad ==
  [][(/\ online
      /\ lastOp' \in {"loadFetched", "loadEmpty"}
      /\ \A i \in DOMAIN db : ~routinePending(db[i])) =>
       DOMAIN db' = DOMAIN routines']_vars

\* C33: while the Connectivity Monitor reports offline, no step of the engine
\* issues a Remote Gateway call.
C33_NoRemoteCallOffline ==
  [][~online => gatewayLog' = <<>>]_vars

\* C34: a load served from the Local Store (offline, from the cache, or as the
\* fallback of a failed fetch) publishes no Routine that the Local Store marks
\* as deleted offline.
C34_DeletedStaysInvisible ==
  lastOp \in {"loadOffline", "loadCached", "loadFallback"} =>
    \A i \in DOMAIN routines \cap DOMAIN db : ~db[i].isOfflineDeleted

\* the activation-related calls of a log for a Routine
ActivationCalls(log, id) ==
  SeqFilter(log, LAMBDA c : c.id = id /\ c.op \in {"activateRoutine", "deactivateRoutine"})

\* C35: when a Routine was deactivated then activated offline (or the reverse)
\* and a reconcile pass in which every call succeeded has left no pending
\* marker, the Routine's isActive in the Local Store and the last
\* activation-related call sent for it match the user's last gesture.
C35_LastIntentWins ==
  (/\ intent.op # "none"
   /\ lastOp = "syncOfflineChanges"
   /\ FailedIn(gatewayLog) = {}
   /\ intent.id \in DOMAIN db
   /\ \A i \in DOMAIN db : ~routinePending(db[i])) =>
    /\ db[intent.id].isActive = (intent.op = "activate")
    /\ LET calls == ActivationCalls(gatewayLog, intent.id)
       IN calls # <<>> =>
            calls[Len(calls)].op = (IF intent.op = "activate" THEN "activateRoutine"
                                    ELSE "deactivateRoutine")

C38_FailedDeleteStillRemovesLocally ==
  [][(online /\ lastOp' = "deleteRoutine") =>
       \A k \in FailedIn(gatewayLog') :
         /\ gatewayLog'[k].id \notin DOMAIN db'
         /\ gatewayLog'[k].id \notin DOMAIN routines']_vars

\* C37: the reconcile guard is always released: whenever the in-progress flag
\* is set, the invocation that set it ends, normally or in its catch, and the
\* flag is false again.
C37_GuardReleased == syncInProgress ~> ~syncInProgress

C37_Witness ==
  /\ lastOp = "syncRaise"
  /\ error
  /\ ~syncInProgress
  /\ syncActive = 0

\* the full-fetch attempts of a log
Fetches(log) == SeqFilter(log, LAMBDA c : c.op = "fetchRoutines")

\* C39: an online load makes at most 3 full-fetch attempts and none after the
\* first that succeeds; after 3 failures it stops, reports the error,
\* publishes the Local Store's contents if it has any, and every load ends
\* with the loading flag false.
C39_RetryBounded ==
  [][(online /\ lastOp' \in LoadOps) =>
       LET fetches == Fetches(gatewayLog')
       IN /\ Len(fetches) <= 3
          /\ \A k \in 1..(Len(fetches) - 1) : ~fetches[k].ok
          /\ (Len(fetches) = 3 /\ ~fetches[3].ok) =>
               /\ lastOp' = "loadFallback"
               /\ error'
               /\ db' = db
               /\ DOMAIN db # {} => routines' = db
          /\ ~loading']_vars

C39_Witness ==
  /\ online
  /\ lastOp = "loadFallback"
  /\ Len(Fetches(gatewayLog)) = 3
  /\ FailedIn(gatewayLog) = {1, 2, 3}
  /\ DOMAIN db # {}
  /\ routines = db
  /\ ~loading

====
